---- MODULE Spec2Model ----
(***************************************************************************)
(* Device-authorization login flow of src/auth/authenticator.go:           *)
(* VerifyDevice, GetAccessTokenForDevice, requestToken and                  *)
(* checkErrorResponse, with the authorization server, the wall clock and   *)
(* the caller's context as the environment.                                 *)
(*                                                                         *)
(* Time is counted in ticks, Second ticks to the second.  A response body  *)
(* is a stream of JSON values; a json.Decoder reads the stream in chunks   *)
(* and what it has buffered is gone for the next decoder on that stream.   *)
(***************************************************************************)
EXTENDS Integers, Sequences, FiniteSets, TLC

\* ---------------------------------------------------------------- bounds
MaxTime == 6
MaxReq == 3
MaxExpiresIn == 2
MaxInterval == 1
Second == 2

\* ------------------------------------------------------------ JSON values
\* A JSON value of a body: a well-formed object (absent fields read as the
\* zero value, unknown fields are ignored by encoding/json) or malformed text.
JObj(e, d, t, dc, ex, iv) ==
    [wf |-> TRUE, error |-> e, error_description |-> d, access_token |-> t,
     device_code |-> dc, expires_in |-> ex, interval |-> iv]

Malformed ==
    [wf |-> FALSE, error |-> "", error_description |-> "", access_token |-> "",
     device_code |-> "", expires_in |-> 0, interval |-> 0]

EmptyObj == JObj("", "", "", "", 0, 0)

DescOf(c) ==
    CASE c = "authorization_pending" -> "user has yet to authorize"
      [] c = "slow_down" -> "polling too fast"
      [] c = "access_denied" -> "user denied the request"
      [] c = "expired_token" -> "device code expired"
      [] OTHER -> "unknown"

ErrObj(c) == JObj(c, DescOf(c), "", "", 0, 0)

TokObj(t) == JObj("", "", t, "", 0, 0)

DevObj(ex, iv) == JObj("", "", "", "D1", ex, iv)

\* ------------------------------------------------------------- responses
\* What client.Do returns: an error (a transport failure, or the context's
\* cancellation) or a status with a body stream.  chunk is the number of JSON
\* values the first Read of the body delivers into a decoder's buffer.
HTTP(s, b, c) == [kind |-> "http", status |-> s, body |-> b, chunk |-> c]

TransportFailure == [kind |-> "transport", status |-> 0, body |-> <<>>, chunk |-> 1]

ContextCanceled == [kind |-> "canceled", status |-> 0, body |-> <<>>, chunk |-> 1]

NoResponse == [kind |-> "none", status |-> 0, body |-> <<>>, chunk |-> 1]

Statuses == {200, 400}

\* The first Read delivers at least one value and at most the whole body.
Chunks(b) == 1..(IF Len(b) = 0 THEN 1 ELSE Len(b))

TransientCodes == {"authorization_pending", "slow_down"}

\* Body streams: empty, one JSON value, or a transient error object followed
\* by a second value that the first Read delivers (chunk 2) or not (chunk 1).
Bodies(Values, Trailers) ==
    {<<>>} \cup {<<x>> : x \in Values} \cup
    {<<ErrObj(c), y>> : c \in TransientCodes, y \in Trailers}

TokenValues ==
    {Malformed, EmptyObj, TokObj("T1")} \cup
    {ErrObj(c) : c \in TransientCodes \cup {"access_denied"}}

TokenResponses ==
    {TransportFailure} \cup
    UNION {{HTTP(s, b, c) : s \in Statuses, c \in Chunks(b)} :
              b \in Bodies(TokenValues, {EmptyObj, TokObj("T1")})}

DeviceValues == {DevObj(ex, iv) : ex \in 0..MaxExpiresIn, iv \in 0..MaxInterval}

VerifyValues ==
    {Malformed, EmptyObj, ErrObj("access_denied")} \cup
    {ErrObj(c) : c \in TransientCodes} \cup DeviceValues

VerifyResponses ==
    {TransportFailure} \cup
    UNION {{HTTP(s, b, c) : s \in Statuses, c \in Chunks(b)} :
              b \in Bodies(VerifyValues, {DevObj(1, 1)})}

\* ---------------------------------------------------------------- errors
NoErr == [kind |-> "nil", code |-> "", msg |-> ""]

\* ErrorResponse used as an error: Error() is the description.
AuthError(o) == [kind |-> "auth", code |-> o.error, msg |-> o.error_description]

DecodeError(m) == [kind |-> "decode", code |-> "", msg |-> m]

\* The error client.Do returned (a transport failure or the context's
\* cancellation), under the message it is wrapped in.
DoError(res, m) == [kind |-> res.kind, code |-> "", msg |-> m]

TimeoutError == [kind |-> "timeout", code |-> "", msg |-> "authentication timed out"]

\* ------------------------------------------------------------ json.Decoder
\* json.NewDecoder(stream).Decode(&x) with a first Read of `chunk` values:
\* fails on an exhausted stream (io.EOF) and on malformed text; otherwise
\* yields the first value, and everything the Read delivered is consumed.
Decode(stream, chunk) ==
    IF stream = <<>> THEN [ok |-> FALSE, val |-> Malformed, rest |-> <<>>]
    ELSE IF ~Head(stream).wf THEN [ok |-> FALSE, val |-> Malformed, rest |-> Tail(stream)]
    ELSE [ok |-> TRUE, val |-> Head(stream),
          rest |-> SubSeq(stream, (IF chunk < Len(stream) THEN chunk ELSE Len(stream)) + 1, Len(stream))]

\* ------------------------------------------------------- checkErrorResponse
\* Variant: access_denied is taken for a code that keeps the polling going.
checkErrorResponse_DeniedTransient(res) ==
    IF res.status >= 400
    THEN LET d == Decode(res.body, res.chunk) IN
         IF ~d.ok
         THEN [err |-> DecodeError("error decoding token response"), body |-> d.rest]
         ELSE IF d.val.error \in {"authorization_pending", "slow_down", "access_denied"}
         THEN [err |-> NoErr, body |-> d.rest]
         ELSE [err |-> AuthError(d.val), body |-> d.rest]
    ELSE [err |-> NoErr, body |-> res.body]

\* Variant: the status 400 itself is not taken for an error status.
checkErrorResponse_Above400(res) ==
    IF res.status > 400
    THEN LET d == Decode(res.body, res.chunk) IN
         IF ~d.ok
         THEN [err |-> DecodeError("error decoding token response"), body |-> d.rest]
         ELSE IF d.val.error = "authorization_pending" \/ d.val.error = "slow_down"
         THEN [err |-> NoErr, body |-> d.rest]
         ELSE [err |-> AuthError(d.val), body |-> d.rest]
    ELSE [err |-> NoErr, body |-> res.body]

\* Variant: the body is handed on as if it had not been read.
checkErrorResponse_KeepsBody(res) ==
    IF res.status >= 400
    THEN LET d == Decode(res.body, res.chunk) IN
         IF ~d.ok
         THEN [err |-> DecodeError("error decoding token response"), body |-> res.body]
         ELSE IF d.val.error = "authorization_pending" \/ d.val.error = "slow_down"
         THEN [err |-> NoErr, body |-> res.body]
         ELSE [err |-> AuthError(d.val), body |-> res.body]
    ELSE [err |-> NoErr, body |-> res.body]

\* The result carries the error and what is left of the body stream.
checkErrorResponse(res) ==
    IF res.status >= 400
    THEN LET d == Decode(res.body, res.chunk) IN
         IF ~d.ok
         THEN [err |-> DecodeError("error decoding token response"), body |-> d.rest]
         ELSE IF d.val.error = "authorization_pending" \/ d.val.error = "slow_down"
         THEN [err |-> NoErr, body |-> d.rest]
         ELSE [err |-> AuthError(d.val), body |-> d.rest]
    ELSE [err |-> NoErr, body |-> res.body]

\* ------------------------------------------------------------- requestToken
\* Variant: an error of client.Do is swallowed, so that the loop tries again.
requestToken_RetryTransport(res) ==
    IF res.kind # "http"
    THEN [token |-> "", err |-> NoErr]
    ELSE LET c == checkErrorResponse(res) IN
         IF c.err # NoErr
         THEN [token |-> "", err |-> c.err]
         ELSE LET d == Decode(c.body, res.chunk) IN
              IF ~d.ok
              THEN [token |-> "", err |-> DecodeError("error decoding token response")]
              ELSE [token |-> d.val.access_token, err |-> NoErr]

\* res is what client.Do returned for the POST to oauth/token.
requestToken(res) ==
    IF res.kind # "http"
    THEN [token |-> "", err |-> DoError(res, "error performing http request")]
    ELSE LET c == checkErrorResponse(res) IN
         IF c.err # NoErr
         THEN [token |-> "", err |-> c.err]
         ELSE LET d == Decode(c.body, res.chunk) IN
              IF ~d.ok
              THEN [token |-> "", err |-> DecodeError("error decoding token response")]
              ELSE [token |-> d.val.access_token, err |-> NoErr]

\* ------------------------------------------------- GetAccessTokenForDevice
\* Variant: the loop polls without waiting.
SleepFor_NoWait(vv) == 0

\* The duration the loop sleeps before an attempt.
\* Variant: the interval is slept without its unit.
SleepFor_NoUnit(vv) == vv.CheckInterval \div Second

SleepFor(vv) == vv.CheckInterval

\* Variant: a response without error and without token is a decode error.
LoopStep_EmptyTokenFails(vv, res, t) ==
    LET r == requestToken(res) IN
    IF r.token = "" /\ r.err = NoErr
    THEN [brk |-> TRUE, accessToken |-> r.token,
          err |-> DecodeError("error decoding token response"), v |-> vv]
    ELSE [brk |-> TRUE, accessToken |-> r.token, err |-> r.err, v |-> vv]

\* Variant: on expiry the loop is left without setting the timeout error.
LoopStep_SilentTimeout(vv, res, t) ==
    LET r == requestToken(res) IN
    IF r.token = "" /\ r.err = NoErr
    THEN IF t > vv.ExpiresAt
         THEN [brk |-> TRUE, accessToken |-> r.token, err |-> r.err, v |-> vv]
         ELSE [brk |-> FALSE, accessToken |-> r.token, err |-> r.err, v |-> vv]
    ELSE [brk |-> TRUE, accessToken |-> r.token, err |-> r.err, v |-> vv]

\* Variant: the expiry comparison is not strict.
LoopStep_ExpiryInclusive(vv, res, t) ==
    LET r == requestToken(res) IN
    IF r.token = "" /\ r.err = NoErr
    THEN IF t >= vv.ExpiresAt
         THEN [brk |-> TRUE, accessToken |-> r.token, err |-> TimeoutError, v |-> vv]
         ELSE [brk |-> FALSE, accessToken |-> r.token, err |-> r.err, v |-> vv]
    ELSE [brk |-> TRUE, accessToken |-> r.token, err |-> r.err, v |-> vv]

\* Variant: the expiry is never consulted.
LoopStep_NoExpiry(vv, res, t) ==
    LET r == requestToken(res) IN
    IF r.token = "" /\ r.err = NoErr
    THEN [brk |-> FALSE, accessToken |-> r.token, err |-> r.err, v |-> vv]
    ELSE [brk |-> TRUE, accessToken |-> r.token, err |-> r.err, v |-> vv]

\* Variant: the expiry is checked on every attempt, whatever it returned.
LoopStep_ExpiryFirst(vv, res, t) ==
    LET r == requestToken(res) IN
    IF t > vv.ExpiresAt
    THEN [brk |-> TRUE, accessToken |-> "", err |-> TimeoutError, v |-> vv]
    ELSE IF r.token = "" /\ r.err = NoErr
    THEN [brk |-> FALSE, accessToken |-> r.token, err |-> r.err, v |-> vv]
    ELSE [brk |-> TRUE, accessToken |-> r.token, err |-> r.err, v |-> vv]

\* Variant: an inconclusive attempt pushes the expiry back by one interval.
LoopStep_ExtendsExpiry(vv, res, t) ==
    LET r == requestToken(res) IN
    IF r.token = "" /\ r.err = NoErr
    THEN IF t > vv.ExpiresAt
         THEN [brk |-> TRUE, accessToken |-> r.token, err |-> TimeoutError, v |-> vv]
         ELSE [brk |-> FALSE, accessToken |-> r.token, err |-> r.err,
               v |-> [vv EXCEPT !.ExpiresAt = @ + vv.CheckInterval]]
    ELSE [brk |-> TRUE, accessToken |-> r.token, err |-> r.err, v |-> vv]

\* One iteration of the loop after the sleep: the attempt's response res is
\* handled at time t.  brk tells whether the loop is left.
LoopStep(vv, res, t) ==
    LET r == requestToken(res) IN
    IF r.token = "" /\ r.err = NoErr
    THEN IF t > vv.ExpiresAt
         THEN [brk |-> TRUE, accessToken |-> r.token, err |-> TimeoutError, v |-> vv]
         ELSE [brk |-> FALSE, accessToken |-> r.token, err |-> r.err, v |-> vv]
    ELSE [brk |-> TRUE, accessToken |-> r.token, err |-> r.err, v |-> vv]

\* ------------------------------------------------------------- VerifyDevice
NoVerification ==
    [isNil |-> TRUE, DeviceCode |-> "", CheckInterval |-> 0, ExpiresAt |-> 0]

\* Variant: the advertised interval is taken as a duration without the unit.
VerifyDevice_NoUnit(res, t) ==
    IF res.kind # "http"
    THEN [v |-> NoVerification, err |-> DoError(res, "")]
    ELSE LET c == checkErrorResponse(res) IN
         IF c.err # NoErr
         THEN [v |-> NoVerification, err |-> c.err]
         ELSE LET d == Decode(c.body, res.chunk) IN
              IF ~d.ok
              THEN [v |-> NoVerification,
                    err |-> DecodeError("error decoding device code response")]
              ELSE [v |-> [isNil |-> FALSE,
                           DeviceCode |-> d.val.device_code,
                           CheckInterval |-> d.val.interval,
                           ExpiresAt |-> t + d.val.expires_in * Second],
                    err |-> NoErr]

\* res is what client.Do returned for the POST to oauth/device/code and t
\* the reading of time.Now() once the response has been decoded.
VerifyDevice(res, t) ==
    IF res.kind # "http"
    THEN [v |-> NoVerification, err |-> DoError(res, "")]
    ELSE LET c == checkErrorResponse(res) IN
         IF c.err # NoErr
         THEN [v |-> NoVerification, err |-> c.err]
         ELSE LET d == Decode(c.body, res.chunk) IN
              IF ~d.ok
              THEN [v |-> NoVerification,
                    err |-> DecodeError("error decoding device code response")]
              ELSE [v |-> [isNil |-> FALSE,
                           DeviceCode |-> d.val.device_code,
                           CheckInterval |-> d.val.interval * Second,
                           ExpiresAt |-> t + d.val.expires_in * Second],
                    err |-> NoErr]

\* ------------------------------------------------------------------ state
VARIABLES
    now,          \* the clock, in ticks
    cancelled,    \* the caller's context is cancelled
    pc,           \* start, verifying, verified, vfailed, sleeping, calling, done
    verifyAt,     \* when VerifyDevice was called
    verifiedAt,   \* when VerifyDevice returned
    vres,         \* the response VerifyDevice got
    v,            \* the DeviceVerification VerifyDevice returned
    verr,         \* the error VerifyDevice returned
    wakeAt,       \* while sleeping: the earliest time time.Sleep returns
    pollAt,       \* when GetAccessTokenForDevice was called
    reqAt,        \* when the latest token request was issued (before the
                  \* first: when GetAccessTokenForDevice was called)
    requests,     \* token requests issued so far
    lateReqs,     \* token requests issued after v.ExpiresAt
    res,          \* the response of the current iteration's token request
    hist,         \* class and lateness of every token response handled so far
    accessToken,  \* GetAccessTokenForDevice's accessToken
    err,          \* GetAccessTokenForDevice's err
    unread        \* the classifier on its own: the body it leaves unread

vars ==
    <<now, cancelled, pc, verifyAt, verifiedAt, vres, v, verr, wakeAt, pollAt, reqAt,
      requests, lateReqs, res, hist, accessToken, err, unread>>

\* verifyAt, verifiedAt and vres describe the VerifyDevice call until its
\* result is handed to the poller.
\* unread is written only where the classifier is run on its own.
verifyVars == <<verifyAt, verifiedAt, vres, unread>>

\* The class of a token response, as the server meant it.
ClassOf(r) ==
    IF r.kind # "http" THEN "transport"
    ELSE IF r.body = <<>> \/ ~Head(r.body).wf THEN "garbled"
    ELSE IF r.status >= 400
         THEN (IF Head(r.body).error \in TransientCodes THEN Head(r.body).error ELSE "error")
         ELSE (IF Head(r.body).access_token # "" THEN "success" ELSE "empty")

Init ==
    /\ now = 0
    /\ cancelled = FALSE
    /\ pc = "start"
    /\ verifyAt = 0
    /\ verifiedAt = 0
    /\ vres = NoResponse
    /\ v = NoVerification
    /\ verr = NoErr
    /\ wakeAt = 0
    /\ pollAt = 0
    /\ reqAt = 0
    /\ requests = 0
    /\ lateReqs = 0
    /\ res = NoResponse
    /\ hist = <<>>
    /\ accessToken = ""
    /\ err = NoErr
    /\ unread = <<>>

\* The clock advances while a call, a wait or the user's browser step is in
\* progress; a cancelled network call returns before it advances again.
Tick ==
    /\ now < MaxTime
    /\ pc \in {"start", "verifying", "verified", "sleeping", "calling"}
    /\ ~(pc = "calling" /\ cancelled)
    /\ now' = now + 1
    /\ UNCHANGED <<cancelled, pc, verifyVars, v, verr, wakeAt, pollAt, reqAt, requests,
                   lateReqs, res, hist, accessToken, err>>

\* VerifyDevice is called and its request sent.
VerifyCall ==
    /\ pc = "start"
    /\ pc' = "verifying"
    /\ verifyAt' = now
    /\ UNCHANGED <<now, cancelled, verifiedAt, vres, v, verr, wakeAt, pollAt, reqAt,
                   requests, lateReqs, res, hist, accessToken, err, unread>>

\* The device-code response arrives and VerifyDevice returns.
VerifyReturn ==
    /\ pc = "verifying"
    /\ \E r \in VerifyResponses :
          LET out == VerifyDevice(r, now) IN
          /\ vres' = r
          /\ verifiedAt' = now
          /\ v' = out.v
          /\ verr' = out.err
          /\ pc' = IF out.err = NoErr THEN "verified" ELSE "vfailed"
    /\ UNCHANGED <<now, cancelled, verifyAt, wakeAt, pollAt, reqAt, requests, lateReqs,
                   res, hist, accessToken, err, unread>>

\* GetAccessTokenForDevice is called with v and enters its first time.Sleep.
PollCall ==
    /\ pc = "verified"
    /\ pc' = "sleeping"
    /\ verifyAt' = 0
    /\ verifiedAt' = 0
    /\ vres' = NoResponse
    /\ pollAt' = now
    /\ reqAt' = now
    /\ wakeAt' = now + SleepFor(v)
    /\ UNCHANGED <<now, cancelled, v, verr, requests, lateReqs, res, hist,
                   accessToken, err, unread>>

\* The caller cancels the context during a wait or a network call.
Cancel ==
    /\ ~cancelled
    /\ pc \in {"sleeping", "calling"}
    /\ cancelled' = TRUE
    /\ UNCHANGED <<now, pc, verifyVars, v, verr, wakeAt, pollAt, reqAt, requests,
                   lateReqs, res, hist, accessToken, err>>

\* The end of an iteration: the loop is left and accessToken and err are
\* returned, or the next iteration enters its time.Sleep.
Finish(out) ==
    /\ accessToken' = out.accessToken
    /\ err' = out.err
    /\ v' = out.v
    /\ pc' = IF out.brk THEN "done" ELSE "sleeping"
    /\ wakeAt' = IF out.brk THEN 0 ELSE now + SleepFor(out.v)

\* time.Sleep returns and requestToken sends the token request.
SendRequest ==
    /\ pc = "sleeping"
    /\ now >= wakeAt
    /\ ~cancelled
    /\ requests < MaxReq
    /\ pc' = "calling"
    /\ wakeAt' = 0
    /\ requests' = requests + 1
    /\ reqAt' = now
    /\ lateReqs' = IF now > v.ExpiresAt THEN lateReqs + 1 ELSE lateReqs
    /\ UNCHANGED <<now, cancelled, verifyVars, v, verr, pollAt, res, hist,
                   accessToken, err>>

\* time.Sleep returns with the context cancelled: client.Do fails at once,
\* nothing is sent.
SendCancelled ==
    /\ pc = "sleeping"
    /\ now >= wakeAt
    /\ cancelled
    /\ res' = ContextCanceled
    /\ Finish(LoopStep(v, ContextCanceled, now))
    /\ UNCHANGED <<now, cancelled, verifyVars, verr, pollAt, reqAt, requests,
                   lateReqs, hist>>

\* The context is cancelled during the network call: client.Do fails.
AbortCall ==
    /\ pc = "calling"
    /\ cancelled
    /\ res' = ContextCanceled
    /\ Finish(LoopStep(v, ContextCanceled, now))
    /\ UNCHANGED <<now, cancelled, verifyVars, verr, pollAt, reqAt, requests,
                   lateReqs, hist>>

\* The token response (or a transport failure) arrives and is handled; the
\* loop returns or goes on to its next time.Sleep.
Respond ==
    /\ pc = "calling"
    /\ ~cancelled
    /\ \E r \in TokenResponses :
          LET out == LoopStep(v, r, now) IN
          /\ res' = IF out.brk THEN r ELSE NoResponse
          /\ hist' = Append(hist, [class |-> ClassOf(r), late |-> now > v.ExpiresAt])
          /\ Finish(out)
    /\ UNCHANGED <<now, cancelled, verifyVars, verr, pollAt, reqAt, requests, lateReqs>>

Next ==
    \/ Tick
    \/ VerifyCall
    \/ VerifyReturn
    \/ PollCall
    \/ Cancel
    \/ SendRequest
    \/ SendCancelled
    \/ AbortCall
    \/ Respond

Spec == Init /\ [][Next]_vars

\* ------------------------------------------------ the classifier on its own
\* checkErrorResponse applied to one response drawn from statuses on both
\* sides of 400 and from bodies of every shape, followed by the decode that
\* requestToken or VerifyDevice runs after it.
\* The poller's environment keeps its promises: the clock advances, time.Sleep
\* returns once the interval is over, and every network call returns (with
\* a response, a transport failure, or the context's error).
Fairness ==
    /\ WF_vars(Tick)
    /\ WF_vars(SendRequest)
    /\ WF_vars(Respond)
    /\ WF_vars(SendCancelled)
    /\ WF_vars(AbortCall)

SpecLive == Spec /\ Fairness

ClassifyStatuses == {200, 399, 400, 401, 500}

ClassifyValues ==
    TokenValues \cup {ErrObj("expired_token"), ErrObj("unsupported"), DevObj(1, 1)}

ClassifyInputs ==
    UNION {{HTTP(s, b, c) : s \in ClassifyStatuses, c \in Chunks(b)} :
              b \in Bodies(ClassifyValues, {EmptyObj, TokObj("T1"), DevObj(1, 1)})}

InitClassify ==
    /\ now = 0
    /\ cancelled = FALSE
    /\ pc = "classify"
    /\ verifyAt = 0
    /\ verifiedAt = 0
    /\ vres = NoResponse
    /\ v = NoVerification
    /\ verr = NoErr
    /\ wakeAt = 0
    /\ pollAt = 0
    /\ reqAt = 0
    /\ requests = 0
    /\ lateReqs = 0
    /\ res \in ClassifyInputs
    /\ hist = <<>>
    /\ accessToken = ""
    /\ err = NoErr
    /\ unread = <<>>

\* checkErrorResponse(res) returns.
Classify ==
    /\ pc = "classify"
    /\ pc' = "classified"
    /\ err' = checkErrorResponse(res).err
    /\ unread' = checkErrorResponse(res).body
    /\ UNCHANGED <<now, cancelled, verifyAt, verifiedAt, vres, v, verr, wakeAt, pollAt,
                   reqAt, requests, lateReqs, res, hist, accessToken>>

\* requestToken goes on from the classifier to its own decode and returns.
TokenDecode ==
    /\ pc = "classified"
    /\ pc' = "token_decoded"
    /\ accessToken' = requestToken(res).token
    /\ err' = requestToken(res).err
    /\ UNCHANGED <<now, cancelled, verifyAt, verifiedAt, vres, v, verr, wakeAt, pollAt,
                   reqAt, requests, lateReqs, res, hist, unread>>

\* VerifyDevice goes on from the classifier to its own decode and returns.
DeviceDecode ==
    /\ pc = "classified"
    /\ pc' = "device_decoded"
    /\ v' = VerifyDevice(res, now).v
    /\ verr' = VerifyDevice(res, now).err
    /\ UNCHANGED <<now, cancelled, verifyAt, verifiedAt, vres, wakeAt, pollAt, reqAt,
                   requests, lateReqs, res, hist, accessToken, err, unread>>

NextClassify ==
    \/ Classify
    \/ TokenDecode
    \/ DeviceDecode

SpecClassify == InitClassify /\ [][NextClassify]_vars

\* ----------------------------------------------------------------- claims
Last(h) == h[Len(h)]

PendingEarly == [class |-> "authorization_pending", late |-> FALSE]

\* The token responses handled so far are authorization_pending error
\* responses seen before expires_at, the latest possibly a success instead.
PendingThenSuccessPrefix ==
    /\ hist # <<>>
    /\ \A i \in 1..(Len(hist) - 1) : hist[i] = PendingEarly
    /\ Last(hist) = PendingEarly \/ Last(hist).class = "success"

\* C1: when the first n token responses are authorization_pending error
\* responses seen before expires_at and the next is a success with a token T,
\* GetAccessTokenForDevice returns (T, no error) after exactly n+1 requests:
\* it returns on such a sequence only at the success response, with its token.
C1_PendingThenSuccess ==
    (pc = "done" /\ ~cancelled /\ PendingThenSuccessPrefix)
        => /\ Last(hist).class = "success"
           /\ accessToken = Head(res.body).access_token
           /\ err = NoErr
           /\ requests = Len(hist)

\* C2: when every token response is an authorization_pending error response
\* until the clock passes expires_at, GetAccessTokenForDevice returns the
\* timeout error with an empty token, on the attempt that sees the expiry,
\* and sends nothing after it.
C2_AllPendingTimesOut ==
    (pc = "done" /\ ~cancelled /\ hist # <<>>
        /\ \A i \in 1..Len(hist) : hist[i].class = "authorization_pending")
        => /\ err = TimeoutError
           /\ accessToken = ""
           /\ Last(hist).late
           /\ \A i \in 1..(Len(hist) - 1) : ~hist[i].late
           /\ requests = Len(hist)

\* The response r with the error code of its first JSON value replaced by c.
WithCode(r, c) ==
    [r EXCEPT !.body = <<[Head(r.body) EXCEPT !.error = c,
                                              !.error_description = DescOf(c)]>>
                       \o Tail(r.body)]

\* C3: a slow_down error response leads the poller to the same outcome as
\* the same response with code authorization_pending, and the poller goes on
\* polling rather than fail.
C3_SlowDownLikePending ==
    /\ \A r \in TokenResponses :
          ClassOf(r) = "slow_down"
              => LoopStep(v, r, now) = LoopStep(v, WithCode(r, "authorization_pending"), now)
    /\ (hist # <<>> /\ Last(hist) = [class |-> "slow_down", late |-> FALSE] /\ ~cancelled)
          => pc # "done"

\* C4: an error response whose code is neither authorization_pending nor
\* slow_down ends GetAccessTokenForDevice on that attempt with an empty token
\* and the AuthError of the server's code and description; nothing is sent
\* after it.
C4_TerminalErrorReturned ==
    (hist # <<>> /\ Last(hist).class = "error")
        => /\ pc = "done"
           /\ accessToken = ""
           /\ err.kind = "auth"
           /\ err.code = Head(res.body).error
           /\ err.msg = Head(res.body).error_description
           /\ requests = Len(hist)

\* C4 witness: access_denied ended the polling while time remained.
C4_Witness ==
    /\ pc = "done"
    /\ hist # <<>> /\ Last(hist).class = "error"
    /\ Head(res.body).error = "access_denied"
    /\ now < v.ExpiresAt

\* C5: a success response with a non-empty access_token ends
\* GetAccessTokenForDevice with exactly that token and no error, whatever
\* came before; nothing is sent after it.
C5_TokenReturned ==
    (hist # <<>> /\ Last(hist).class = "success")
        => /\ pc = "done"
           /\ accessToken = Head(res.body).access_token
           /\ accessToken # ""
           /\ err = NoErr
           /\ requests = Len(hist)

\* C5 witness: a token arrived after an inconclusive attempt, past expires_at.
C5_Witness ==
    /\ pc = "done"
    /\ Len(hist) >= 2 /\ Last(hist) = [class |-> "success", late |-> TRUE]
    /\ accessToken = "T1"

\* C6: GetAccessTokenForDevice always waits before polling: every token
\* request, the first included, is sent no sooner than check_interval after
\* the one before it (for the first, after the call began).
C6_WaitBeforeEveryRequest ==
    [][requests' = requests + 1 => now' >= reqAt + v.CheckInterval]_vars

\* C6 witness: a second request has been sent with a positive check_interval.
C6_Witness ==
    /\ pc = "calling"
    /\ requests >= 2
    /\ v.CheckInterval > 0

\* C7: a cancellation of the context during an unfinished check_interval
\* wait or during the network call aborts it: the poller's next step is to
\* return the cancellation error, before the clock advances (the wait is not
\* completed) and without a further request.
C7_CancelAbortsWaitAndCall ==
    [][(cancelled /\ (pc = "calling" \/ (pc = "sleeping" /\ now < wakeAt)))
          => (pc' = "done" /\ now' = now /\ err'.kind = "canceled"
              /\ requests' = requests)]_vars

\* The JSON object that VerifyDevice's response carries.
VerifyObj == Head(vres.body)

\* C8: on a response with status >= 400, authorization_pending and slow_down
\* included, VerifyDevice returns no DeviceVerification and fails with the
\* AuthError of the code and description of the body.
C8_VerifyFailsWithAuthError ==
    (pc \in {"verified", "vfailed"} /\ vres.kind = "http" /\ vres.status >= 400
        /\ vres.body # <<>> /\ VerifyObj.wf)
        => /\ pc = "vfailed"
           /\ v.isNil
           /\ verr = AuthError(VerifyObj)

\* A valid device-code response has been turned into a DeviceVerification.
ValidDeviceCodeReturned ==
    /\ pc = "verified"
    /\ vres.status < 400
    /\ vres.body # <<>> /\ VerifyObj \in DeviceValues

\* C9 as claimed: check_interval is the advertised interval and expires_at is
\* the time VerifyDevice was called plus the advertised expires_in.
C9_ExpiresAtFromCallTime ==
    ValidDeviceCodeReturned
        => /\ v.CheckInterval = VerifyObj.interval * Second
           /\ v.ExpiresAt = verifyAt + VerifyObj.expires_in * Second

\* C9 amended: check_interval is the advertised interval and expires_at is
\* the time at which VerifyDevice has the decoded response, after the network
\* call, plus the advertised expires_in.
C9_ExpiresAtFromDecodeTime ==
    ValidDeviceCodeReturned
        => /\ ~v.isNil
           /\ v.CheckInterval = VerifyObj.interval * Second
           /\ v.ExpiresAt = verifiedAt + VerifyObj.expires_in * Second

\* C9 witness: the network call took time and the lifetime is positive.
C9_Witness ==
    /\ ValidDeviceCodeReturned
    /\ verifiedAt > verifyAt
    /\ VerifyObj.expires_in > 0
    /\ VerifyObj.interval > 0

\* C10: from the call of GetAccessTokenForDevice to its return, no step
\* changes the DeviceVerification: device_code, check_interval and expires_at
\* stay as they were given.
C10_VerificationNeverModified ==
    [][(pc \in {"verified", "sleeping", "calling", "done"}) => (v' = v)]_vars

\* C10 witness: the poller has returned after inconclusive attempts.
C10_Witness ==
    /\ pc = "done"
    /\ Len(hist) >= 2
    /\ v.CheckInterval > 0

\* C11: a transport failure on a poll attempt is not retried:
\* GetAccessTokenForDevice returns that error, wrapped, with an empty token
\* on the same attempt, and sends nothing after it.
C11_TransportFailureReturned ==
    (hist # <<>> /\ Last(hist).class = "transport")
        => /\ pc = "done"
           /\ accessToken = ""
           /\ err = [kind |-> "transport", code |-> "",
                     msg |-> "error performing http request"]
           /\ requests = Len(hist)

\* C11 witness: the second request failed in transport while time remained.
C11_Witness ==
    /\ pc = "done"
    /\ Len(hist) = 2 /\ Last(hist).class = "transport"
    /\ now < v.ExpiresAt

\* The body of the classified response cannot be decoded as a JSON object.
Undecodable == res.body = <<>> \/ ~Head(res.body).wf

\* C12: checkErrorResponse is a total function of status and body: no error
\* below 400 whatever the body; from 400 on, a decode error (not an
\* AuthError) for an undecodable body, no error for authorization_pending
\* and slow_down, and for any other code, empty or unknown included, the
\* AuthError with the server's code and description.
C12_ClassifierCases ==
    pc = "classified"
        => IF res.status < 400 THEN err = NoErr
           ELSE IF Undecodable THEN err.kind = "decode"
           ELSE IF Head(res.body).error \in {"authorization_pending", "slow_down"}
                THEN err = NoErr
           ELSE /\ err.kind = "auth"
                /\ err.code = Head(res.body).error
                /\ err.msg = Head(res.body).error_description

\* C12 witness: status 400 with an unknown code has been classified.
C12_Witness ==
    /\ pc = "classified"
    /\ res.status = 400
    /\ ~Undecodable /\ Head(res.body).error = "unsupported"
    /\ err.kind = "auth"

\* C13: a response with a status below 400 whose decoded access_token is
\* empty, seen before expires_at has passed, neither fails nor returns: the
\* poller waits check_interval and sends the next request.
C13_EmptyTokenKeepsPolling ==
    (hist # <<>> /\ Last(hist) = [class |-> "empty", late |-> FALSE] /\ ~cancelled)
        => /\ pc \in {"sleeping", "calling"}
           /\ accessToken = "" /\ err = NoErr
           /\ pc = "sleeping" => (requests = Len(hist) /\ wakeAt >= reqAt + v.CheckInterval)
           /\ pc = "calling" => requests = Len(hist) + 1

\* C13 witness: the next request is out after a token-less success response.
C13_Witness ==
    /\ pc = "calling"
    /\ requests = 2
    /\ hist = <<[class |-> "empty", late |-> FALSE]>>
    /\ v.CheckInterval > 0

\* C14: GetAccessTokenForDevice returns either a non-empty token with no
\* error or an empty token with an error, never neither and never both.
C14_TokenXorError ==
    pc = "done"
        => \/ accessToken # "" /\ err = NoErr
           \/ accessToken = "" /\ err # NoErr

\* C14 witness: the poller has returned the timeout error.
C14_Witness ==
    /\ pc = "done"
    /\ accessToken = ""
    /\ err = TimeoutError

\* C15: the expiry is consulted only after an attempt without token and
\* without error, with a strict comparison: a token or an error that arrives
\* after expires_at is returned as it is, the timeout error is returned only
\* when the clock is past expires_at, and a token-less success response
\* handled at exactly expires_at keeps the poller polling.
C15_ExpiryOnlyAfterInconclusive ==
    [][(Len(hist') = Len(hist) + 1)
          => LET c == Last(hist').class IN
             /\ (c = "success") => (pc' = "done" /\ accessToken' # "" /\ err' = NoErr)
             /\ (c = "error") => (pc' = "done" /\ err'.kind = "auth")
             /\ (c = "transport") => (pc' = "done" /\ err'.kind = "transport")
             /\ (c = "garbled") => (pc' = "done" /\ err'.kind = "decode")
             /\ (err'.kind = "timeout") => (now > v.ExpiresAt /\ accessToken' = "")
             /\ (c = "empty" /\ now = v.ExpiresAt) => (pc' = "sleeping" /\ err' = NoErr)
             /\ (c = "empty" /\ now > v.ExpiresAt) => (pc' = "done" /\ err' = TimeoutError)]_vars

\* C15 witness: a token-less success response was handled at exactly
\* expires_at and the poller has entered its next wait.
C15_Witness ==
    /\ pc = "sleeping"
    /\ hist # <<>> /\ Last(hist).class = "empty"
    /\ v.CheckInterval > 0
    /\ now = v.ExpiresAt
    /\ wakeAt = now + v.CheckInterval

\* C16: at most one token request is sent after expires_at, and it is the
\* last one.
C16_AtMostOneLateRequest ==
    /\ lateReqs <= 1
    /\ lateReqs = 1 => (reqAt > v.ExpiresAt /\ pc \in {"calling", "done"})

\* C16 witness: the poller has returned after a second request that was sent
\* after expires_at.
C16_Witness ==
    /\ pc = "done"
    /\ requests >= 2
    /\ lateReqs = 1

\* The classifier has passed a response of status >= 400 as transient.
PassedAsTransient ==
    /\ res.status >= 400
    /\ ~Undecodable
    /\ Head(res.body).error \in TransientCodes

\* The first Read delivered the whole body of the classified response.
WholeBodyRead == Len(res.body) <= res.chunk

\* C17: checkErrorResponse leaves the body unread below status 400 and reads
\* it from 400 on; when it passes such a response as transient, the decode
\* that follows in requestToken and in VerifyDevice gets what is left of the
\* stream (nothing, when the first Read delivered the whole body), not the
\* body from its start.
C17_SuccessDecodeOnReadBody ==
    /\ (pc = "classified" /\ res.status < 400) => unread = res.body
    /\ (pc = "classified" /\ res.status >= 400 /\ res.body # <<>>)
          => Len(unread) < Len(res.body)
    /\ (pc = "classified" /\ PassedAsTransient)
          => unread = SubSeq(res.body, res.chunk + 1, Len(res.body))
    /\ (pc = "token_decoded" /\ PassedAsTransient)
          => IF WholeBodyRead
             THEN accessToken = "" /\ err.kind = "decode"
             ELSE accessToken = res.body[res.chunk + 1].access_token /\ err = NoErr
    /\ (pc = "device_decoded" /\ PassedAsTransient)
          => IF WholeBodyRead
             THEN v.isNil /\ verr.kind = "decode"
             ELSE ~v.isNil /\ v.DeviceCode = res.body[res.chunk + 1].device_code
    /\ (pc = "token_decoded" /\ res.status < 400 /\ ~Undecodable)
          => (accessToken = Head(res.body).access_token /\ err = NoErr)

\* C17 witness: requestToken has failed to decode the one-object body of an
\* authorization_pending response.
C17_Witness ==
    /\ pc = "token_decoded"
    /\ res.status = 400
    /\ res.body = <<ErrObj("authorization_pending")>>
    /\ err.kind = "decode"

\* The claimed bound on the number of token requests: time to expiry at the
\* call of GetAccessTokenForDevice (none when already expired) over
\* check_interval, plus one.
RequestBound ==
    LET left == IF v.ExpiresAt > pollAt THEN v.ExpiresAt - pollAt ELSE 0 IN
    (left \div v.CheckInterval) + 1

Polling == pc \in {"sleeping", "calling", "done"}

\* A call of GetAccessTokenForDevice with check_interval > 0 whose worst case
\* fits within the modelled time and number of requests.
PollStartsWithinModel ==
    /\ pc = "sleeping"
    /\ requests = 0
    /\ v.CheckInterval > 0
    /\ pollAt + v.CheckInterval <= MaxTime
    /\ v.ExpiresAt + v.CheckInterval <= MaxTime
    /\ RequestBound <= MaxReq

\* C18: with check_interval > 0, and every wait and network call returning,
\* GetAccessTokenForDevice eventually returns, after at most
\* (time to expiry / check_interval) + 1 requests; with check_interval = 0
\* the wait is over as soon as it starts, so only the clock advancing
\* elsewhere can bring the expiry about.
C18_TerminatesWithinBound ==
    /\ []((Polling /\ v.CheckInterval > 0) => requests <= RequestBound)
    /\ []((pc = "sleeping" /\ v.CheckInterval = 0) => wakeAt <= now)
    /\ (PollStartsWithinModel ~> pc = "done")

\* C18 witness: with check_interval > 0 the poller has timed out after as
\* many requests as the bound allows, more than one.
C18_Witness ==
    /\ pc = "done"
    /\ v.CheckInterval > 0
    /\ err = TimeoutError
    /\ requests = RequestBound
    /\ requests > 1

====
